---- MODULE Spec2Model ----
(***************************************************************************)
(* Model of src/src/MincePieVote.jsx: the MincePieVoteApp component, its   *)
(* React state (comparisons, loading, saving), the startup load, the four  *)
(* mutations (addComparison, vote, resetVotes, deleteComparison) and the   *)
(* fire-and-forget pushes of the whole collection to the remote store.     *)
(*                                                                         *)
(* Strings are sequences of one-character strings, so that trim() is       *)
(* computed.  A record id is Date.now() + Math.random(), a sum of doubles: *)
(* for a clock value t it lies between t and t + 1, both ends included     *)
(* (a fraction close enough to 1 makes the sum round up to t + 1).  The    *)
(* model keeps the clock in milliseconds and the two ends of that range.   *)
(***************************************************************************)
EXTENDS Integers, Sequences, FiniteSets, TLC

VARIABLES
    comparisons,  \* useState([]) : the in-memory collection
    loading,      \* useState(true)
    saving,       \* useState(false)
    load,         \* position of loadData: "unmounted", "fetching", "responded", "done"
    loadResp,     \* the body of the list response, once the store has answered
    pushes,       \* the update requests in flight, in issue order
    store,        \* the collection held by the remote store
    ops,          \* number of handler invocations so far
    saveErrors,   \* number of "Failed to save sheet data" lines logged by console.error
    last          \* the step taken last: which handler or completion, with its arguments

vars == <<comparisons, loading, saving, load, loadResp, pushes, store, ops, saveErrors, last>>

----------------------------------------------------------------------------
(* Bounds of the model *)

MaxOps == 2    \* handler invocations per run
MaxNow == 0    \* Date.now() returns a millisecond in 0..MaxNow

----------------------------------------------------------------------------
(* Strings and String.prototype.trim *)

IsSpace(ch) == ch = " "

RECURSIVE TrimStart(_)
TrimStart(s) == IF s # <<>> /\ IsSpace(Head(s)) THEN TrimStart(Tail(s)) ELSE s

RECURSIVE TrimEnd(_)
TrimEnd(s) ==
    IF s # <<>> /\ IsSpace(s[Len(s)]) THEN TrimEnd(SubSeq(s, 1, Len(s) - 1)) ELSE s

trim(s) == TrimEnd(TrimStart(s))

\* The values the add form can hold when it is submitted.
FormInputs ==
    { [a |-> <<" ", "X">>, b |-> <<"Y", " ">>, aImg |-> <<"u", " ">>, bImg |-> <<>>],
      [a |-> <<>>, b |-> <<"Y">>, aImg |-> <<>>, bImg |-> <<>>] }

\* The two name inputs carry the HTML attribute "required": the browser submits
\* the form only when their values are not empty.
FormAccepted(form) == form.a # <<>> /\ form.b # <<>>

----------------------------------------------------------------------------
(* Records and collections *)

Seed ==
    [id |-> 0, a |-> <<"P">>, b |-> <<"Q">>, aImg |-> <<>>, bImg |-> <<>>,
     votesA |-> 1, votesB |-> 0, createdAt |-> 0]

\* What the sheet may hold when the page is opened.
InitStores == { <<>>, <<Seed>> }

IdsOf(cs) == { cs[i].id : i \in 1 .. Len(cs) }

\* An id that Date.now() + Math.random() does not produce within the bounds.
AbsentId == MaxNow + 2

\* The ids a handler is called with: those of the records shown, and one of no record.
IdInputs == IdsOf(comparisons) \cup {AbsentId}

Sides == {"A", "B"}

RECURSIVE SelectRows(_, _)
\* Array.prototype.filter with the predicate c.id !== id
SelectRows(cs, id) ==
    IF cs = <<>> THEN <<>>
    ELSE IF Head(cs).id # id THEN <<Head(cs)>> \o SelectRows(Tail(cs), id)
    ELSE SelectRows(Tail(cs), id)

RemoveAt(s, i) == SubSeq(s, 1, i - 1) \o SubSeq(s, i + 1, Len(s))

Step(op, id, side, ok) == [op |-> op, id |-> id, side |-> side, ok |-> ok]

----------------------------------------------------------------------------
(* The initial state: the values given to useState, nothing requested yet *)

Init ==
    /\ comparisons = <<>>
    /\ loading = TRUE
    /\ saving = FALSE
    /\ load = "unmounted"
    /\ loadResp = [isArray |-> FALSE, data |-> <<>>]
    /\ pushes = <<>>
    /\ store \in InitStores
    /\ ops = 0
    /\ saveErrors = 0
    /\ last = Step("init", 0, "-", TRUE)

----------------------------------------------------------------------------
(* loadData *)

\* useEffect(() => { loadData(); }, []) up to the first await
Mount ==
    /\ load = "unmounted"
    /\ loading' = TRUE
    /\ load' = "fetching"
    /\ last' = Step("mount", 0, "-", TRUE)
    /\ UNCHANGED <<comparisons, saving, loadResp, pushes, store, ops, saveErrors>>

\* The store answers GET ?action=list with its collection, or with a JSON value
\* that is not an array.
ListServe(isArray) ==
    /\ load = "fetching"
    /\ loadResp' = [isArray |-> isArray, data |-> IF isArray THEN store ELSE <<>>]
    /\ load' = "responded"
    /\ last' = Step("listServe", 0, "-", isArray)
    /\ UNCHANGED <<comparisons, loading, saving, pushes, store, ops, saveErrors>>

\* LoadedValue merging the response into what is in memory.
LoadedMerged(resp) == IF resp.isArray THEN comparisons \o resp.data ELSE comparisons

\* Array.isArray(data) ? data : []
LoadedValue(resp) == IF resp.isArray THEN resp.data ELSE <<>>

\* fetch and res.json() resolved: setComparisons(...); setLoading(false)
LoadResolve ==
    /\ load = "responded"
    /\ comparisons' = LoadedValue(loadResp)
    /\ loading' = FALSE
    /\ load' = "done"
    /\ last' = Step("loadResolve", 0, "-", TRUE)
    /\ UNCHANGED <<saving, loadResp, pushes, store, ops, saveErrors>>

\* LoadFailValue clearing the collection.
LoadFailClear(cs) == <<>>

\* What the catch branch of loadData does to the collection: nothing.
LoadFailValue(cs) == cs

\* LoadFail with setLoading(false) inside the try block, so that a failure skips it.
LoadFailStillLoading ==
    /\ load \in {"fetching", "responded"}
    /\ load' = "done"
    /\ last' = Step("loadFail", 0, "-", TRUE)
    /\ UNCHANGED <<comparisons, loading, saving, loadResp, pushes, store, ops, saveErrors>>

\* fetch or res.json() rejected: console.error; setLoading(false)
LoadFail ==
    /\ load \in {"fetching", "responded"}
    /\ comparisons' = LoadFailValue(comparisons)
    /\ loading' = FALSE
    /\ load' = "done"
    /\ last' = Step("loadFail", 0, "-", TRUE)
    /\ UNCHANGED <<saving, loadResp, pushes, store, ops, saveErrors>>

----------------------------------------------------------------------------
(* saveData and sync *)

\* saveData cancelling the requests still in flight before it issues its own.
saveDataAbortPrevious(next) ==
    /\ saving' = TRUE
    /\ pushes' = <<[data |-> next, stage |-> "sent"]>>

\* saveData(next) up to its await: setSaving(true), POST {action: "update", data: next}
saveData(next) ==
    /\ saving' = TRUE
    /\ pushes' = Append(pushes, [data |-> next, stage |-> "sent"])

\* sync pushing the collection as it was before the mutation.
SyncStale(next) ==
    /\ comparisons' = next
    /\ saveData(comparisons)

sync(next) ==
    /\ comparisons' = next
    /\ saveData(next)

\* The store handles an update request: it replaces its collection by the payload.
UpdateServe(i) ==
    /\ i \in 1 .. Len(pushes)
    /\ pushes[i].stage = "sent"
    /\ store' = pushes[i].data
    /\ pushes' = [pushes EXCEPT ![i].stage = "applied"]
    /\ last' = Step("updateServe", 0, "-", TRUE)
    /\ UNCHANGED <<comparisons, loading, saving, load, loadResp, ops, saveErrors>>

\* The fetch of saveData resolved: setSaving(false)
SaveResolve(i) ==
    /\ i \in 1 .. Len(pushes)
    /\ pushes[i].stage = "applied"
    /\ pushes' = RemoveAt(pushes, i)
    /\ saving' = FALSE
    /\ last' = Step("saveResolve", 0, "-", TRUE)
    /\ UNCHANGED <<comparisons, loading, load, loadResp, store, ops, saveErrors>>

\* SaveFailValue rolling the collection back to what the store holds.
SaveFailRevert(cs) == store

\* What the catch branch of saveData does to the collection: nothing.
SaveFailValue(cs) == cs

\* SaveFail with a retry: the catch branch issues the request again.
SaveFailRetry(i) ==
    /\ i \in 1 .. Len(pushes)
    /\ pushes[i].stage = "sent"
    /\ pushes' = Append(RemoveAt(pushes, i), pushes[i])
    /\ saveErrors' = saveErrors + 1
    /\ last' = Step("saveFail", 0, "-", TRUE)
    /\ UNCHANGED <<comparisons, loading, saving, load, loadResp, store, ops>>

\* The fetch of saveData rejected before the request reached the store:
\* console.error; setSaving(false)
SaveFail(i) ==
    /\ i \in 1 .. Len(pushes)
    /\ pushes[i].stage = "sent"
    /\ pushes' = RemoveAt(pushes, i)
    /\ comparisons' = SaveFailValue(comparisons)
    /\ saving' = FALSE
    /\ saveErrors' = saveErrors + 1
    /\ last' = Step("saveFail", 0, "-", TRUE)
    /\ UNCHANGED <<loading, load, loadResp, store, ops>>

----------------------------------------------------------------------------
(* The handlers *)

\* What Math.random() adds to the clock value in the double-precision sum:
\* nothing (FALSE), or a whole millisecond when the sum rounds up (TRUE).
RandomInputs == BOOLEAN

\* Date.now() + Math.random()
NewId(t, r) == IF r THEN t + 1 ELSE t

NewRow(form, t, r) ==
    [id |-> NewId(t, r), a |-> trim(form.a), b |-> trim(form.b),
     aImg |-> trim(form.aImg), bImg |-> trim(form.bImg),
     votesA |-> 0, votesB |-> 0, createdAt |-> t]

\* AddNext putting the new row at the end: [...comparisons, row]
AddNextAtEnd(cs, row) == cs \o <<row>>

\* [row, ...comparisons]
AddNext(cs, row) == <<row>> \o cs

\* Mounted with the handlers held back while a load or a save is going on.
MountedAndIdle == load = "done" /\ ~loading /\ ~saving

\* The handlers run once the component is mounted.
Mounted == load # "unmounted"

\* t is the value of Date.now(), r the value of Math.random()
addComparison(form, t, r) ==
    /\ Mounted
    /\ ops < MaxOps
    /\ FormAccepted(form)
    /\ sync(AddNext(comparisons, NewRow(form, t, r)))
    /\ ops' = ops + 1
    /\ last' = Step("add", NewId(t, r), "-", TRUE)
    /\ UNCHANGED <<loading, load, loadResp, store, saveErrors>>

\* VoteRow with the side test lost: both counters are incremented.
VoteRowBoth(c, id, side) ==
    IF c.id = id THEN [c EXCEPT !.votesA = c.votesA + 1, !.votesB = c.votesB + 1] ELSE c

VoteRow(c, id, side) ==
    IF c.id = id
    THEN [c EXCEPT !.votesA = IF side = "A" THEN c.votesA + 1 ELSE c.votesA,
                   !.votesB = IF side = "B" THEN c.votesB + 1 ELSE c.votesB]
    ELSE c

VoteNext(cs, id, side) == [i \in 1 .. Len(cs) |-> VoteRow(cs[i], id, side)]

\* vote returning early, without sync, when no record has the id.
voteSkipsUnknownId(id, side) ==
    /\ Mounted
    /\ ops < MaxOps
    /\ IF id \in IdsOf(comparisons)
       THEN sync(VoteNext(comparisons, id, side))
       ELSE UNCHANGED <<comparisons, saving, pushes>>
    /\ ops' = ops + 1
    /\ last' = Step("vote", id, side, TRUE)
    /\ UNCHANGED <<loading, load, loadResp, store, saveErrors>>

vote(id, side) ==
    /\ Mounted
    /\ ops < MaxOps
    /\ sync(VoteNext(comparisons, id, side))
    /\ ops' = ops + 1
    /\ last' = Step("vote", id, side, TRUE)
    /\ UNCHANGED <<loading, load, loadResp, store, saveErrors>>

ResetRow(c, id) == IF c.id = id THEN [c EXCEPT !.votesA = 0, !.votesB = 0] ELSE c

ResetNext(cs, id) == [i \in 1 .. Len(cs) |-> ResetRow(cs[i], id)]

\* Confirmed with the answer of confirm() ignored.
ConfirmedAlways(ok) == TRUE

\* The value of confirm(...) that lets a handler go on.
Confirmed(ok) == ok

resetVotes(id, ok) ==
    /\ Mounted
    /\ ops < MaxOps
    /\ IF Confirmed(ok)
       THEN sync(ResetNext(comparisons, id))
       ELSE UNCHANGED <<comparisons, saving, pushes>>
    /\ ops' = ops + 1
    /\ last' = Step("reset", id, "-", ok)
    /\ UNCHANGED <<loading, load, loadResp, store, saveErrors>>

DeleteNext(cs, id) == SelectRows(cs, id)

deleteComparison(id, ok) ==
    /\ Mounted
    /\ ops < MaxOps
    /\ IF Confirmed(ok)
       THEN sync(DeleteNext(comparisons, id))
       ELSE UNCHANGED <<comparisons, saving, pushes>>
    /\ ops' = ops + 1
    /\ last' = Step("delete", id, "-", ok)
    /\ UNCHANGED <<loading, load, loadResp, store, saveErrors>>

----------------------------------------------------------------------------

Next ==
    \/ Mount
    \/ \E isArray \in BOOLEAN : ListServe(isArray)
    \/ LoadResolve
    \/ LoadFail
    \/ \E i \in 1 .. Len(pushes) : UpdateServe(i)
    \/ \E i \in 1 .. Len(pushes) : SaveResolve(i)
    \/ \E i \in 1 .. Len(pushes) : SaveFail(i)
    \/ \E form \in FormInputs, t \in 0 .. MaxNow, r \in RandomInputs : addComparison(form, t, r)
    \/ \E id \in IdInputs, side \in Sides : vote(id, side)
    \/ \E id \in IdInputs, ok \in BOOLEAN : resetVotes(id, ok)
    \/ \E id \in IdInputs, ok \in BOOLEAN : deleteComparison(id, ok)

Spec == Init /\ [][Next]_vars

\* A step of the network or of the effect: a request is answered, a promise settles.
NetworkStep ==
    \/ Mount
    \/ \E isArray \in BOOLEAN : ListServe(isArray)
    \/ LoadResolve
    \/ LoadFail
    \/ \E i \in 1 .. Len(pushes) : UpdateServe(i) \/ SaveResolve(i) \/ SaveFail(i)

\* Every network call settles: as long as a request is pending, one of them moves on.
NetworkSettles == WF_vars(NetworkStep)

FairSpec == Spec /\ NetworkSettles

\* The values a name input of the add form can hold.
NameInputs == { <<>>, <<" ">>, <<"X">>, <<" ", "X", " ">>, <<"Y", " ">> }

\* The add form with any of these values in its two name inputs.
SubmittedForms == [a : NameInputs, b : NameInputs, aImg : {<<>>}, bImg : {<<>>}]

\* The component used for adding only: it is mounted, and the form is submitted.
FormNext ==
    \/ Mount
    \/ \E form \in SubmittedForms, t \in 0 .. MaxNow, r \in RandomInputs :
          addComparison(form, t, r)

FormSpec == Init /\ [][FormNext]_vars

----------------------------------------------------------------------------
(* Vocabulary of the properties *)

UniqueIds(cs) == \A i, j \in 1 .. Len(cs) : cs[i].id = cs[j].id => i = j

NonNegative(cs) == \A i \in 1 .. Len(cs) : cs[i].votesA >= 0 /\ cs[i].votesB >= 0

\* The step just taken is a mutation that went on to sync.
Proceeds(l) == l.op \in {"add", "vote"} \/ (l.op \in {"reset", "delete"} /\ l.ok)

\* c2 is c with nothing changed but its two counters.
SameButVotes(c, c2, va, vb) ==
    /\ c2.id = c.id /\ c2.a = c.a /\ c2.b = c.b
    /\ c2.aImg = c.aImg /\ c2.bImg = c.bImg /\ c2.createdAt = c.createdAt
    /\ c2.votesA = va /\ c2.votesB = vb

Payloads(ps) == [i \in 1 .. Len(ps) |-> ps[i].data]

\* No request of ps2 is new with respect to ps.
NoNewRequest(ps, ps2) ==
    \/ Payloads(ps2) = Payloads(ps)
    \/ \E i \in 1 .. Len(ps) : Payloads(ps2) = RemoveAt(Payloads(ps), i)

\* The positions in cs of the record c, whatever its counters.
RowsLike(cs, c) ==
    { k \in 1 .. Len(cs) :
         /\ cs[k].id = c.id /\ cs[k].a = c.a /\ cs[k].b = c.b
         /\ cs[k].aImg = c.aImg /\ cs[k].bImg = c.bImg /\ cs[k].createdAt = c.createdAt }

MaxOf(S) == CHOOSE m \in S : \A n \in S : n <= m

IdSeq(cs) == [i \in 1 .. Len(cs) |-> cs[i].id]

AnyAdd == \E form \in FormInputs, t \in 0 .. MaxNow, r \in RandomInputs : addComparison(form, t, r)

----------------------------------------------------------------------------
(* C1: after any sequence of addComparison, vote, resetVotes and            *)
(* deleteComparison, the in-memory collection has pairwise distinct ids and *)
(* every record has votesA >= 0 and votesB >= 0.                            *)
C1_UniqueIdsNonNegative == UniqueIds(comparisons) /\ NonNegative(comparisons)

(* C2: addComparison puts exactly one new record at the head, with both     *)
(* counters 0 and an id that no record already in the collection has; the   *)
(* records already present follow it unchanged.                             *)
C2_AddPrependsFreshRecord ==
    [][last'.op = "add" =>
          /\ Len(comparisons') = Len(comparisons) + 1
          /\ Tail(comparisons') = comparisons
          /\ Head(comparisons').votesA = 0
          /\ Head(comparisons').votesB = 0
          /\ Head(comparisons').id \notin IdsOf(comparisons)]_vars

(* C3: vote(id, "A") adds exactly 1 to votesA of the record matching id and *)
(* leaves its votesB and its other fields as they were; vote(id, "B") does  *)
(* the same with votesB; every record whose id is not id is unchanged, and  *)
(* no record is added or removed.                                           *)
C3_VoteFrame ==
    [][last'.op = "vote" =>
          /\ Len(comparisons') = Len(comparisons)
          /\ \A i \in 1 .. Len(comparisons) :
                LET c == comparisons[i]
                    d == comparisons'[i]
                IN  IF c.id # last'.id THEN d = c
                    ELSE IF last'.side = "A"
                         THEN SameButVotes(c, d, c.votesA + 1, c.votesB)
                         ELSE SameButVotes(c, d, c.votesA, c.votesB + 1)]_vars

\* A vote for side A has just hit a record, next to a record with another id.
C3_Witness ==
    /\ last.op = "vote" /\ last.side = "A"
    /\ \E i, j \in 1 .. Len(comparisons) :
          /\ comparisons[i].id = last.id /\ comparisons[i].votesA > 0
          /\ comparisons[j].id # last.id

(* C4: resetVotes(id) with confirmation refused leaves the collection as it *)
(* was and issues no push; with confirmation granted the record matching id *)
(* has votesA = 0 and votesB = 0 and every record with another id is        *)
(* unchanged.                                                               *)
C4_ResetGate ==
    [][last'.op = "reset" =>
          IF last'.ok
          THEN /\ Len(comparisons') = Len(comparisons)
               /\ \A i \in 1 .. Len(comparisons) :
                     LET c == comparisons[i]
                         d == comparisons'[i]
                     IN  IF c.id = last'.id THEN SameButVotes(c, d, 0, 0) ELSE d = c
          ELSE comparisons' = comparisons /\ pushes' = pushes]_vars

\* A granted reset has just zeroed the record loaded from the sheet, which had a vote.
C4_Witness ==
    /\ last.op = "reset" /\ last.ok /\ last.id = Seed.id
    /\ comparisons = <<[Seed EXCEPT !.votesA = 0]>>

(* C5: a confirmed deleteComparison(id) removes exactly one record, the one *)
(* whose id is id: the length decreases by exactly one and every other      *)
(* record remains; a refused one leaves the collection unchanged and issues *)
(* no push.                                                                 *)
C5_DeleteExactlyOne ==
    [][last'.op = "delete" =>
          IF last'.ok
          THEN last'.id \in IdsOf(comparisons) =>
                  /\ Len(comparisons') = Len(comparisons) - 1
                  /\ \E i \in 1 .. Len(comparisons) :
                        /\ comparisons[i].id = last'.id
                        /\ comparisons' = RemoveAt(comparisons, i)
          ELSE comparisons' = comparisons /\ pushes' = pushes]_vars

(* C6: every mutation that proceeds issues exactly one update request whose *)
(* payload is the whole collection as it stands right after the mutation,   *)
(* and no other step issues an update request.                              *)
C6_OnePushPerMutation ==
    [][IF Proceeds(last')
       THEN pushes' = Append(pushes, [data |-> comparisons', stage |-> "sent"])
       ELSE NoNewRequest(pushes, pushes')]_vars

\* A second mutation has just been pushed while the push of the first is in flight.
C6_Witness ==
    /\ Proceeds(last)
    /\ Len(pushes) = 2
    /\ comparisons # <<>>
    /\ pushes[2].data = comparisons
    /\ pushes[1].data # comparisons

(* C7: a failed push leaves the collection exactly as it was (the mutation  *)
(* is not rolled back), and after it every handler can still be invoked.    *)
C7_SaveFailKeepsState ==
    /\ [][last'.op = "saveFail" => comparisons' = comparisons]_vars
    /\ [](last.op = "saveFail" /\ ops < MaxOps =>
             /\ ENABLED AnyAdd
             /\ \A id \in IdsOf(comparisons) :
                   /\ \A side \in Sides : ENABLED vote(id, side)
                   /\ \A ok \in BOOLEAN : ENABLED resetVotes(id, ok)
                   /\ \A ok \in BOOLEAN : ENABLED deleteComparison(id, ok))

\* A push has just failed, with the mutated collection in memory and not in the store.
C7_Witness ==
    /\ last.op = "saveFail"
    /\ comparisons # <<>>
    /\ comparisons # store
    /\ ops < MaxOps

(* C8: when the load fails the collection is left as it was, the loading    *)
(* indicator is turned off, and no further load is ever started.            *)
C8_LoadFailKeepsState ==
    [][/\ last'.op = "loadFail" =>
             comparisons' = comparisons /\ loading' = FALSE /\ load' = "done"
       /\ load = "done" => load' = "done" /\ loadResp' = loadResp]_vars

\* The load has just failed while a record added meanwhile is in memory.
C8_Witness ==
    /\ last.op = "loadFail"
    /\ comparisons # <<>>
    /\ ~loading

(* C9: when the load succeeds the collection becomes exactly the returned   *)
(* value if it is a sequence and the empty collection otherwise; what was   *)
(* in memory is overwritten, not merged.                                    *)
C9_LoadOverwrites ==
    [][last'.op = "loadResolve" =>
          comparisons' = IF loadResp.isArray THEN loadResp.data ELSE <<>>]_vars

\* The load has just resolved with the sheet's record, over a record added meanwhile.
C9_Witness ==
    /\ last.op = "loadResolve"
    /\ loadResp.isArray
    /\ comparisons = <<Seed>>
    /\ pushes # <<>>
    /\ pushes[Len(pushes)].data # <<>>
    /\ pushes[Len(pushes)].data # comparisons

(* C10: a record leaves the in-memory collection only through a confirmed   *)
(* deleteComparison of its id; no other step removes a record.              *)
C10_OnlyDeleteRemoves ==
    [][\A i \in 1 .. Len(comparisons) :
          comparisons[i].id \notin IdsOf(comparisons') =>
             last'.op = "delete" /\ last'.ok /\ last'.id = comparisons[i].id]_vars
(* C11: in every step, votesA and votesB of the in-memory record with a     *)
(* given id do not decrease, unless the step is a confirmed resetVotes or a *)
(* confirmed deleteComparison of that id.  (A record is followed from one   *)
(* state to the next by its id and the fields that no handler changes.)     *)
C11_VotesNeverDecrease ==
    [][\A i \in 1 .. Len(comparisons) :
          LET c == comparisons[i]
              before == RowsLike(comparisons, c)
              after == RowsLike(comparisons', c)
          IN  after # {} =>
                 \/ /\ MaxOf({ comparisons'[k].votesA : k \in after })
                          >= MaxOf({ comparisons[k].votesA : k \in before })
                    /\ MaxOf({ comparisons'[k].votesB : k \in after })
                          >= MaxOf({ comparisons[k].votesB : k \in before })
                 \/ /\ last'.op \in {"reset", "delete"}
                    /\ last'.ok
                    /\ last'.id = c.id]_vars

(* C12: pushes are not serialized.  A mutation issues its push at once and  *)
(* leaves the pushes already in flight where they are; any request in       *)
(* flight may be the next to reach the store, whatever its place in the     *)
(* issue order, and the store then holds its payload.  Hence the store can  *)
(* end up, with nothing in flight and no push failed, holding an earlier    *)
(* collection than the one in memory.                                       *)
C12_PushesNotSerialized ==
    [][/\ Proceeds(last') =>
             /\ SubSeq(pushes', 1, Len(pushes)) = pushes
             /\ pushes'[Len(pushes')].stage = "sent"
       /\ last'.op = "updateServe" =>
             \E i \in 1 .. Len(pushes) :
                /\ pushes[i].stage = "sent"
                /\ pushes' = [pushes EXCEPT ![i].stage = "applied"]
                /\ store' = pushes[i].data]_vars

\* Nothing is in flight, no push failed, and the store holds the added record
\* without the vote that memory has: the push of the vote arrived first.
C12_Witness ==
    /\ pushes = <<>>
    /\ saveErrors = 0
    /\ ops = 2
    /\ Len(store) = 1 /\ Len(comparisons) = 1
    /\ store[1].a = <<"X">>
    /\ comparisons[1].id = store[1].id
    /\ store[1].votesA = 0
    /\ comparisons[1].votesA = 1

(* C13: the saving indicator is on in every state in which at least one     *)
(* push is in flight, and off in every state in which none is.              *)
C13_SavingIffInFlight == saving <=> pushes # <<>>

(* C14: provided every network call eventually resolves or rejects, the     *)
(* loading indicator eventually turns off after the startup load, on        *)
(* success and on failure alike, and after the last mutation the saving     *)
(* indicator eventually turns off and stays off, whether the pushes         *)
(* succeeded or failed.                                                     *)
C14_IndicatorsTransient == <>[](~loading) /\ <>[](~saving /\ pushes = <<>>)

\* Both indicators are off after a failed load, a failed push and a successful push.
C14_Witness ==
    /\ ~loading /\ ~saving
    /\ pushes = <<>>
    /\ ops = MaxOps
    /\ saveErrors = 1
    /\ last.op = "saveResolve"
    /\ loadResp.isArray = FALSE /\ comparisons # <<>>

(* C15: neither the loading nor the saving state disables an operation: in *)
(* every state of the mounted component, whatever the two indicators show   *)
(* and however many requests are in flight, addComparison can be invoked,   *)
(* and vote, resetVotes and deleteComparison can be invoked for every       *)
(* record of the collection (as long as the run has handler calls left).    *)
C15_OperationsAlwaysEnabled ==
    load # "unmounted" /\ ops < MaxOps =>
       /\ ENABLED AnyAdd
       /\ \A id \in IdsOf(comparisons) :
             /\ \A side \in Sides : ENABLED vote(id, side)
             /\ \A ok \in BOOLEAN : ENABLED resetVotes(id, ok)
             /\ \A ok \in BOOLEAN : ENABLED deleteComparison(id, ok)

\* The list request and an update request are in flight, both indicators are on,
\* a record is shown, and a handler call is left.
C15_Witness ==
    /\ loading /\ saving
    /\ load = "fetching"
    /\ pushes # <<>>
    /\ comparisons # <<>>
    /\ ops < MaxOps

C17_OrderStable ==
    [][/\ last'.op \in {"vote", "reset"} => IdSeq(comparisons') = IdSeq(comparisons)
       /\ (last'.op = "delete" /\ last'.ok) =>
             comparisons' = SelectSeq(comparisons, LAMBDA c : c.id # last'.id)
       /\ (last'.op = "delete" /\ ~last'.ok) => comparisons' = comparisons
       /\ last'.op = "add" =>
             /\ Len(comparisons') = Len(comparisons) + 1
             /\ comparisons'[1].id = last'.id
             /\ SubSeq(comparisons', 2, Len(comparisons')) = comparisons]_vars

\* A record has just been added in front of the record loaded from the sheet.
C17_Witness ==
    /\ last.op = "add"
    /\ Len(comparisons) = 2
    /\ comparisons[1].a = <<"X">>
    /\ comparisons[2] = Seed

(* C18: vote(id, side) with an id that matches no record leaves the         *)
(* collection unchanged (no record added, removed or altered) and still     *)
(* issues one push, carrying the unchanged collection.                      *)
C18_VoteUnknownId ==
    [][(last'.op = "vote" /\ last'.id \notin IdsOf(comparisons)) =>
          /\ comparisons' = comparisons
          /\ pushes' = Append(pushes, [data |-> comparisons, stage |-> "sent"])
          /\ saving']_vars

\* A vote for an id of no record has just been pushed, with a record in memory.
C18_Witness ==
    /\ last.op = "vote"
    /\ last.id = AbsentId
    /\ comparisons # <<>>
    /\ pushes # <<>>
    /\ pushes[Len(pushes)].data = comparisons

(* C19: every record that addComparison puts into the collection has       *)
(* non-empty display names a and b, for every input the add form accepts    *)
(* for submission, names made of white space only included.                 *)
C19_NamesNonEmpty ==
    [][last'.op = "add" =>
          Head(comparisons').a # <<>> /\ Head(comparisons').b # <<>>]_vars

====
